---------------------------- MODULE Spec2Model ----------------------------
(***************************************************************************)
(* Model of the trace-driven cache simulator of cachesim.py: the Block /   *)
(* Set / Cache data structures, the address decoder, the LRU victim        *)
(* selection and the read / write engine with its statistics counters.     *)
(*                                                                         *)
(* A Cache object is a record; every method of the class is an operator    *)
(* taking the record (and returning the updated record where the method    *)
(* mutates self).  Python lists are functions over 0..n-1.  Python         *)
(* integers are unbounded, so no width is modelled.  The payload of a      *)
(* Block (size, data) is never read or written by any method and is left   *)
(* out of the Block record.                                                *)
(***************************************************************************)
EXTENDS Integers, Sequences, FiniteSets, TLC

VARIABLES
    trace_file,   \* the trace file on disk
    output_file,  \* the lines written to the result file
    args,         \* the arguments of the latest Cache(...) call
    cache,        \* the Cache object of the current configuration
    operations,   \* the operations of the trace, in file order
    op_index,     \* how many of them the replay loop has consumed
    hits,         \* the value each read / write call on cache returned
    config,       \* position of the sweep in its enumeration
    results,      \* the result records collected by the sweep
    pc            \* where simulate_trace stands

vars == <<trace_file, output_file, args, cache, operations, op_index, hits,
          config, results, pc>>

-----------------------------------------------------------------------------
(* Bounds of the model                                                     *)

\* longest replayed prefix of a trace
MaxOps == 4

\* largest cache_size / block_size handed to the constructor in SpecGeom
MaxSize == 33

-----------------------------------------------------------------------------
(* class Cache.PlacementType / class Cache.WritePolicy                     *)

Direct_Mapped == 0
Two_Way == 1
Four_Way == 2
Fully_Associative == 3

WB == 0
WT == 1

PlacementTypes == {Direct_Mapped, Two_Way, Four_Way, Fully_Associative}
WritePolicies == {WB, WT}

-----------------------------------------------------------------------------
(* Integer helpers standing for Python / numpy primitives                  *)

\* a >> k on a non-negative integer
ShiftRight(a, k) == a \div (2 ^ k)

RECURSIVE BitAnd(_, _)
\* a & b on non-negative integers, bit by bit
BitAnd(a, b) ==
    IF a = 0 \/ b = 0 THEN 0
    ELSE (a % 2) * (b % 2) + 2 * BitAnd(a \div 2, b \div 2)

RECURSIVE Log2(_)
\* int(np.log2(n)) for n >= 1: the floor of the binary logarithm
Log2(n) == IF n <= 1 THEN 0 ELSE 1 + Log2(n \div 2)

SetMin(S) == CHOOSE x \in S : \A y \in S : x <= y

-----------------------------------------------------------------------------
(* class Block, class Set                                                  *)

\* a Block that starts out valid
BlockStartsValid == [valid |-> TRUE, dirty |-> FALSE, tag |-> 0, last_used |-> 0]

Block == [valid |-> FALSE, dirty |-> FALSE, tag |-> 0, last_used |-> 0]

Set(num_ways) == [w \in 0 .. num_ways - 1 |-> Block]

-----------------------------------------------------------------------------
(* Cache.__init__                                                          *)

\* an unknown placement taken for direct-mapped
NumWaysDefaultDirect(cache_size, block_size, placement_type) ==
    CASE placement_type = Two_Way -> 2
      [] placement_type = Four_Way -> 4
      [] placement_type = Fully_Associative -> cache_size \div block_size
      [] OTHER -> 1

\* the derived number of ways; -1 stands for the "Invalid placement type" raise
NumWays(cache_size, block_size, placement_type) ==
    CASE placement_type = Direct_Mapped -> 1
      [] placement_type = Two_Way -> 2
      [] placement_type = Four_Way -> 4
      [] placement_type = Fully_Associative -> cache_size \div block_size
      [] OTHER -> -1

\* the number of sets taken to be the number of blocks
NumSetsIgnoringWays(num_blocks, num_ways) == num_blocks

\* num_sets = num_blocks // num_ways
NumSets(num_blocks, num_ways) == num_blocks \div num_ways

\* a construction that raised e: no Cache object exists
Failed(e) == [error |-> e]

Cache(cache_size, block_size, write_policy, placement_type) ==
    IF block_size = 0 THEN Failed("RuntimeError")
    ELSE IF cache_size = 0 THEN Failed("RuntimeError")
    ELSE LET num_ways == NumWays(cache_size, block_size, placement_type) IN
    IF num_ways = -1 THEN Failed("RuntimeError")
    ELSE LET num_blocks == cache_size \div block_size IN
    \* num_blocks // num_ways with num_ways == 0
    IF num_ways = 0 THEN Failed("ZeroDivisionError")
    ELSE LET num_sets == NumSets(num_blocks, num_ways) IN
    \* int(np.log2(0)) is int(-inf)
    IF placement_type # Fully_Associative /\ num_sets = 0
    THEN Failed("OverflowError")
    ELSE LET offset_bits == Log2(block_size)
             set_bits == IF placement_type = Fully_Associative
                         THEN 0 ELSE Log2(num_sets)
         IN [error |-> "none",
             cache_size |-> cache_size,
             block_size |-> block_size,
             placement_type |-> placement_type,
             write_policy |-> write_policy,
             num_ways |-> num_ways,
             num_blocks |-> num_blocks,
             num_sets |-> num_sets,
             offset_bits |-> offset_bits,
             set_bits |-> set_bits,
             tag_shift |-> offset_bits + set_bits,
             sets |-> [s \in 0 .. num_sets - 1 |-> Set(num_ways)],
             total_requests |-> 0,
             total_hits |-> 0,
             bytes_to_cache |-> 0,
             bytes_to_memory |-> 0,
             access_count |-> 0]

-----------------------------------------------------------------------------
(* Address decoder                                                         *)

get_tag(c, address) == ShiftRight(address, c.tag_shift)

\* the index without its mask
get_block_index_unmasked(c, address) ==
    IF c.placement_type = Fully_Associative THEN 0
    ELSE ShiftRight(address, c.offset_bits)

get_block_index(c, address) ==
    IF c.placement_type = Fully_Associative THEN 0
    ELSE BitAnd(ShiftRight(address, c.offset_bits), 2 ^ c.set_bits - 1)

\* the mask read as (address & block_size) - 1
get_block_offset_mask_first(c, address) == BitAnd(address, c.block_size) - 1

get_block_offset(c, address) == BitAnd(address, c.block_size - 1)

-----------------------------------------------------------------------------
(* Cache.find_lru_block                                                    *)

\* float('inf')
Inf == -1

RECURSIVE lru_scan(_, _, _, _)
\* the for loop of find_lru_block from way i on
lru_scan(lines, i, min_used, min_index) ==
    IF i \notin DOMAIN lines THEN min_index
    ELSE IF ~lines[i].valid THEN i
    ELSE IF min_used = Inf \/ lines[i].last_used < min_used
         THEN lru_scan(lines, i + 1, lines[i].last_used, i)
         ELSE lru_scan(lines, i + 1, min_used, min_index)

\* the victim taken from the most recently used end
find_mru_block(c, set_index) ==
    LET lines == c.sets[set_index]
        invalid == {w \in DOMAIN lines : ~lines[w].valid}
    IN IF invalid # {} THEN SetMin(invalid)
       ELSE CHOOSE w \in DOMAIN lines :
                \A u \in DOMAIN lines : lines[u].last_used <= lines[w].last_used

\* a full set that always gives up its way 0
find_lru_block_way_zero(c, set_index) ==
    LET lines == c.sets[set_index]
        invalid == {w \in DOMAIN lines : ~lines[w].valid}
    IN IF invalid # {} THEN SetMin(invalid) ELSE 0

\* the least recently used valid way, empty ways or not
find_lru_block_valid_first(c, set_index) ==
    LET lines == c.sets[set_index]
        valid == {w \in DOMAIN lines : lines[w].valid}
    IN IF valid = {} THEN 0
       ELSE CHOOSE w \in valid :
                \A u \in valid : lines[w].last_used <= lines[u].last_used

find_lru_block(c, set_index) == lru_scan(c.sets[set_index], 0, Inf, 0)

-----------------------------------------------------------------------------
(* Cache.read / Cache.write                                                *)

\* a scan that compares no tag
hit_way_any_tag(lines, tag) ==
    LET m == {i \in DOMAIN lines : lines[i].valid}
    IN IF m = {} THEN -1 ELSE SetMin(m)

\* a scan that stops after way 0
hit_way_first_only(lines, tag) ==
    IF lines[0].valid /\ lines[0].tag = tag THEN 0 ELSE -1

\* the scan for a hit: the first way that is valid with the tag, or -1
hit_way(lines, tag) ==
    LET m == {i \in DOMAIN lines : lines[i].valid /\ lines[i].tag = tag}
    IN IF m = {} THEN -1 ELSE SetMin(m)

\* a miss that fetches one word
miss_fill_word(c) == 4

\* bytes fetched from memory on a miss
miss_fill(c) == c.block_size

\* a write-back of every valid victim, dirty or clean
victim_writeback_clean(c, victim) ==
    IF c.write_policy = WB /\ victim.valid THEN c.block_size ELSE 0

\* a write-back that sends the victim's block to memory twice
victim_writeback_double(c, victim) ==
    IF c.write_policy = WB /\ victim.valid /\ victim.dirty
    THEN 2 * c.block_size ELSE 0

\* a write-back of every valid victim under either policy
victim_writeback_any_policy(c, victim) ==
    IF victim.valid THEN c.block_size ELSE 0

\* bytes written to memory when the victim is replaced
victim_writeback(c, victim) ==
    IF c.write_policy = WB /\ victim.valid /\ victim.dirty
    THEN c.block_size ELSE 0

\* a write-through of the whole block
write_through_block(c) == IF c.write_policy = WB THEN 0 ELSE c.block_size

\* a word written to memory by every write, whatever the policy
write_through_always(c) == 4

\* bytes a write sends to memory by itself
write_through(c) == IF c.write_policy = WB THEN 0 ELSE 4

\* an install that leaves the line invalid
read_install_invalid(tag, stamp) ==
    [valid |-> FALSE, dirty |-> FALSE, tag |-> tag, last_used |-> stamp]

\* the block a read miss installs, left without its recency stamp
read_install_unstamped(tag, stamp) ==
    [valid |-> TRUE, dirty |-> FALSE, tag |-> tag, last_used |-> 0]

\* the block a read miss installs, marked modified
read_install_dirty(tag, stamp) ==
    [valid |-> TRUE, dirty |-> TRUE, tag |-> tag, last_used |-> stamp]

\* the block a read miss installs
read_install(tag, stamp) ==
    [valid |-> TRUE, dirty |-> FALSE, tag |-> tag, last_used |-> stamp]

\* the block a write miss installs, marked modified under either policy
write_install_always_dirty(c, tag, stamp) ==
    [valid |-> TRUE, dirty |-> TRUE, tag |-> tag, last_used |-> stamp]

\* a write miss that allocates under write-back only
write_install_no_allocate(c, tag, stamp) ==
    [valid |-> (c.write_policy = WB), dirty |-> (c.write_policy = WB),
     tag |-> tag, last_used |-> stamp]

\* the block a write miss installs, stamped with the count before the access
write_install_stale_stamp(c, tag, stamp) ==
    [valid |-> TRUE, dirty |-> (c.write_policy = WB), tag |-> tag,
     last_used |-> stamp - 1]

\* the block a write miss installs
write_install(c, tag, stamp) ==
    [valid |-> TRUE, dirty |-> (c.write_policy = WB), tag |-> tag,
     last_used |-> stamp]

\* a write hit that leaves the dirty bit alone
write_hit_keeps_dirty(c, block) == block.dirty

\* the dirty bit of a block after a write hit
write_hit_dirty(c, block) == IF c.write_policy = WB THEN TRUE ELSE block.dirty

read(c, address) ==
    LET set_index == get_block_index(c, address)
        tag == get_tag(c, address)
        lines == c.sets[set_index]
        i == hit_way(lines, tag)
        stamp == c.access_count + 1
    IN IF i # -1
       THEN [hit |-> TRUE,
             cache |-> [c EXCEPT !.total_requests = @ + 1,
                                 !.total_hits = @ + 1,
                                 !.access_count = stamp,
                                 !.sets[set_index][i].last_used = stamp]]
       ELSE LET replace_index == find_lru_block(c, set_index) IN
            [hit |-> FALSE,
             cache |-> [c EXCEPT !.total_requests = @ + 1,
                                 !.bytes_to_cache = @ + miss_fill(c),
                                 !.bytes_to_memory =
                                     @ + victim_writeback(c, lines[replace_index]),
                                 !.access_count = stamp,
                                 !.sets[set_index][replace_index] =
                                     read_install(tag, stamp)]]

write(c, address) ==
    LET set_index == get_block_index(c, address)
        tag == get_tag(c, address)
        lines == c.sets[set_index]
        i == hit_way(lines, tag)
        stamp == c.access_count + 1
    IN IF i # -1
       THEN [hit |-> TRUE,
             cache |-> [c EXCEPT !.total_requests = @ + 1,
                                 !.total_hits = @ + 1,
                                 !.access_count = stamp,
                                 !.sets[set_index][i].last_used = stamp,
                                 !.sets[set_index][i].dirty =
                                     write_hit_dirty(c, lines[i]),
                                 !.bytes_to_memory = @ + write_through(c)]]
       ELSE LET replace_index == find_lru_block(c, set_index) IN
            [hit |-> FALSE,
             cache |-> [c EXCEPT !.total_requests = @ + 1,
                                 !.bytes_to_cache = @ + miss_fill(c),
                                 !.bytes_to_memory =
                                     @ + victim_writeback(c, lines[replace_index])
                                       + write_through(c),
                                 !.access_count = stamp,
                                 !.sets[set_index][replace_index] =
                                     write_install(c, tag, stamp)]]

-----------------------------------------------------------------------------
(* Cache.get_hit_rate: the quotient is kept as numerator / denominator     *)

\* the quotient without the guard
get_hit_rate_unguarded(c) == [num |-> c.total_hits, den |-> c.total_requests]

get_hit_rate(c) ==
    IF c.total_requests = 0 THEN [num |-> 0, den |-> 1]
    ELSE [num |-> c.total_hits, den |-> c.total_requests]

-----------------------------------------------------------------------------
(* The value lists of simulate_trace                                       *)

cache_sizes == <<1024, 2048, 8192, 65536>>
block_sizes == <<4, 8, 32, 256>>
placement_types == <<Direct_Mapped, Two_Way, Four_Way, Fully_Associative>>
write_policies == <<WB, WT>>

\* no trace file, no result file
NoFile == [exists |-> FALSE, lines |-> <<>>]

\* the arguments of a Cache(...) call
Args(cache_size, block_size, write_policy, placement_type) ==
    [cache_size |-> cache_size, block_size |-> block_size,
     write_policy |-> write_policy, placement_type |-> placement_type]

-----------------------------------------------------------------------------
(* The replay of a trace against one Cache (the inner loop of              *)
(* simulate_trace), the trace being any sequence of read and write         *)
(* requests: each step draws the next operation of the trace and applies   *)
(* it, so that operations is the trace as far as it has been replayed.     *)

\* geometries standing for the sweep's, scaled down
Geometries ==
    { <<32, 4, Direct_Mapped>>, <<8, 4, Direct_Mapped>>, <<16, 8, Two_Way>>,
      <<16, 4, Four_Way>>, <<16, 8, Fully_Associative>> }

Addresses == {0, 2, 4, 8, 16, 32}

Init ==
    /\ \E g \in Geometries, wp \in WritePolicies :
           /\ args = Args(g[1], g[2], wp, g[3])
           /\ cache = Cache(g[1], g[2], wp, g[3])
    /\ trace_file = NoFile
    /\ output_file = <<>>
    /\ operations = <<>>
    /\ op_index = 0
    /\ hits = <<>>
    /\ config = 0
    /\ results = <<>>
    /\ pc = "replay"

Read ==
    /\ cache.error = "none"
    /\ Len(operations) < MaxOps
    /\ \E address \in Addresses :
           LET r == read(cache, address) IN
           /\ cache' = r.cache
           /\ operations' = Append(operations, <<"read", address>>)
           /\ op_index' = op_index + 1
           /\ hits' = Append(hits, r.hit)
    /\ UNCHANGED <<trace_file, output_file, args, config, results, pc>>

Write ==
    /\ cache.error = "none"
    /\ Len(operations) < MaxOps
    /\ \E address \in Addresses :
           LET r == write(cache, address) IN
           /\ cache' = r.cache
           /\ operations' = Append(operations, <<"write", address>>)
           /\ op_index' = op_index + 1
           /\ hits' = Append(hits, r.hit)
    /\ UNCHANGED <<trace_file, output_file, args, config, results, pc>>

Next == Read \/ Write

Spec == Init /\ [][Next]_vars

-----------------------------------------------------------------------------
(* Construction alone, over every small geometry, valid or not             *)

WritePolicyInputs == WritePolicies \cup {2}
PlacementInputs == PlacementTypes \cup {4}

\* the sizes handed to the constructor: every small one, and the sweep's
SizeInputs ==
    {<<cache_size, block_size>> :
         cache_size \in 0 .. MaxSize, block_size \in 0 .. MaxSize}
    \cup {<<cache_sizes[i], block_sizes[j]>> :
              i \in DOMAIN cache_sizes, j \in DOMAIN block_sizes}

InitGeom ==
    /\ \E sz \in SizeInputs, write_policy \in WritePolicyInputs,
          placement_type \in PlacementInputs :
           args = Args(sz[1], sz[2], write_policy, placement_type)
    /\ trace_file = NoFile
    /\ output_file = <<>>
    /\ cache = Failed("unconstructed")
    /\ operations = <<>>
    /\ op_index = 0
    /\ hits = <<>>
    /\ config = 0
    /\ results = <<>>
    /\ pc = "construct"

Construct ==
    /\ pc = "construct"
    /\ cache' = Cache(args.cache_size, args.block_size, args.write_policy,
                      args.placement_type)
    /\ pc' = IF cache'.error = "none" THEN "replay" ELSE "raised"
    /\ UNCHANGED <<trace_file, output_file, args, operations, op_index, hits,
                   config, results>>

\* the addresses of the first request to a new Cache
FirstAddresses == {0, 21, 44, 63}

\* self.sets[set_index] is a list subscript: an index at or beyond the end
\* of the list raises IndexError, after total_requests has been counted
FirstRequest ==
    /\ pc = "replay"
    /\ \E op_type \in {"read", "write"}, address \in FirstAddresses :
           /\ operations' = <<<<op_type, address>>>>
           /\ op_index' = 1
           /\ IF get_block_index(cache, address) \in DOMAIN cache.sets
              THEN LET r == IF op_type = "read" THEN read(cache, address)
                            ELSE write(cache, address)
                   IN /\ cache' = r.cache
                      /\ hits' = <<r.hit>>
                      /\ pc' = "returned"
              ELSE /\ cache' = [cache EXCEPT !.total_requests = @ + 1]
                   /\ hits' = hits
                   /\ pc' = "IndexError"
    /\ UNCHANGED <<trace_file, output_file, args, config, results>>

NextGeom == Construct \/ FirstRequest

SpecGeom == InitGeom /\ [][NextGeom]_vars

-----------------------------------------------------------------------------
(* Cache.get_placement_str / get_write_policy_str / get_result_str         *)

get_placement_str(c) ==
    IF c.placement_type = Direct_Mapped THEN "DM"
    ELSE IF c.placement_type = Two_Way THEN "2W"
    ELSE IF c.placement_type = Four_Way THEN "4W"
    ELSE "FA"

get_write_policy_str(c) == IF c.write_policy = WB THEN "WB" ELSE "WT"

\* f"{rate:.2f}": the quotient rounded to hundredths, given as the number of
\* hundredths.  A quotient half way between two hundredths is exact in
\* binary only when the divisor is a power of two, and is then rounded to
\* the even neighbour.
Format2f(rate) ==
    LET q == (100 * rate.num) \div rate.den
        r == (100 * rate.num) % rate.den
    IN IF 2 * r > rate.den THEN q + 1
       ELSE IF 2 * r < rate.den THEN q
       ELSE IF q % 2 = 0 THEN q ELSE q + 1

\* the record with the two traffic counters in each other's place
get_result_str_traffic_swapped(c) ==
    << c.cache_size, c.block_size, get_placement_str(c), c.num_ways,
       get_write_policy_str(c), c.total_requests, c.total_hits,
       Format2f(get_hit_rate(c)), c.bytes_to_memory, c.bytes_to_cache >>

\* the ten fields of the record, in order
get_result_str(c) ==
    << c.cache_size, c.block_size, get_placement_str(c), c.num_ways,
       get_write_policy_str(c), c.total_requests, c.total_hits,
       Format2f(get_hit_rate(c)), c.bytes_to_cache, c.bytes_to_memory >>

-----------------------------------------------------------------------------
(* simulate_trace: the sweep over every configuration                      *)

NumConfigs ==
    Len(cache_sizes) * Len(block_sizes) * Len(placement_types)
        * Len(write_policies)

\* the loops nested with the write policy outermost and the cache size
\* innermost
ConfigurationPolicyOutermost(k) ==
    LET i == k - 1
        s == i % Len(cache_sizes)
        b == (i \div Len(cache_sizes)) % Len(block_sizes)
        p == (i \div (Len(cache_sizes) * Len(block_sizes)))
                 % Len(placement_types)
        w == i \div (Len(cache_sizes) * Len(block_sizes)
                         * Len(placement_types))
    IN [cache_size |-> cache_sizes[s + 1],
        block_size |-> block_sizes[b + 1],
        placement |-> placement_types[p + 1],
        write_policy |-> write_policies[w + 1]]

\* the k-th combination of the four nested loops, cache size outermost
Configuration(k) ==
    LET i == k - 1
        w == i % Len(write_policies)
        p == (i \div Len(write_policies)) % Len(placement_types)
        b == (i \div (Len(write_policies) * Len(placement_types)))
                 % Len(block_sizes)
        s == i \div (Len(write_policies) * Len(placement_types)
                         * Len(block_sizes))
    IN [cache_size |-> cache_sizes[s + 1],
        block_size |-> block_sizes[b + 1],
        placement |-> placement_types[p + 1],
        write_policy |-> write_policies[w + 1]]

\* the operation name compared as it stands in the trace
LowerOmitted(op_type) == op_type

\* str.lower() on the operation names that occur in the traces
Lower(op_type) ==
    CASE op_type \in {"read", "READ", "Read"} -> "read"
      [] op_type \in {"load", "LOAD", "Load"} -> "load"
      [] op_type \in {"write", "WRITE", "Write"} -> "write"
      [] op_type \in {"store", "STORE", "Store"} -> "store"
      [] OTHER -> op_type

-----------------------------------------------------------------------------
(* read_trace_file.  A file is the sequence of its lines, a line the       *)
(* sequence line.strip().split() of its fields.  The first field is kept   *)
(* as a string; an address field is the sequence of its characters, each   *)
(* given by its value as a hexadecimal digit, NotHex for any other         *)
(* character.                                                              *)

NotHex == 16

RECURSIVE HexInt(_)
\* int(field, 16) of a field of hexadecimal digits
HexInt(field) ==
    IF field = <<>> THEN 0
    ELSE 16 * HexInt(SubSeq(field, 1, Len(field) - 1)) + field[Len(field)]

IsHex(field) == \A i \in DOMAIN field : field[i] \in 0 .. 15

RECURSIVE read_lines_until_malformed(_, _)
\* the loop given up at the first line that has not two fields
read_lines_until_malformed(lines, i) ==
    IF i > Len(lines) THEN [error |-> "none", operations |-> <<>>]
    ELSE LET parts == lines[i] IN
         IF Len(parts) # 2 THEN [error |-> "none", operations |-> <<>>]
         ELSE IF ~IsHex(parts[2])
              THEN [error |-> "ValueError", operations |-> <<>>]
              ELSE LET rest == read_lines_until_malformed(lines, i + 1) IN
                   [error |-> rest.error,
                    operations |->
                        IF rest.error = "none"
                        THEN <<<<parts[1], HexInt(parts[2])>>>> \o rest.operations
                        ELSE <<>>]

RECURSIVE read_lines(_, _)
\* the loop over the lines of the file, from line i on
read_lines(lines, i) ==
    IF i > Len(lines) THEN [error |-> "none", operations |-> <<>>]
    ELSE LET parts == lines[i] IN
         IF Len(parts) # 2 THEN read_lines(lines, i + 1)
         ELSE IF ~IsHex(parts[2])
              THEN [error |-> "ValueError", operations |-> <<>>]
              ELSE LET rest == read_lines(lines, i + 1) IN
                   [error |-> rest.error,
                    operations |->
                        IF rest.error = "none"
                        THEN <<<<parts[1], HexInt(parts[2])>>>> \o rest.operations
                        ELSE <<>>]

\* a missing file that is not handled
read_trace_file_unhandled(file) ==
    IF ~file.exists THEN [error |-> "FileNotFoundError", operations |-> <<>>]
    ELSE read_lines(file.lines, 1)

\* except FileNotFoundError: print and return the empty list
read_trace_file(file) ==
    IF ~file.exists THEN [error |-> "none", operations |-> <<>>]
    ELSE read_lines(file.lines, 1)

File(lines) == [exists |-> TRUE, lines |-> lines]

\* the trace files the sweep is run on
TraceFiles ==
    { NoFile,
      File(<<>>),
      File(<< <<"read", <<0>>>>, <<"read", <<0, 0>>>> >>),
      File(<< <<"read", <<0>>>>, <<"read", <<4, 0, 0>>>>, <<"read", <<0>>>> >>),
      File(<< <<"write", <<0>>>>, <<"Store", <<1, 0, 0, 0, 0>>>>,
              <<"load", <<2>>>> >>),
      File(<< <<"fetch", <<0>>>>, <<"WRITE", <<0, 4>>>>,
              <<"READ", <<1, 0, 4>>>> >>),
      File(<< <<"store", <<0>>>>, <<>>, <<"write", <<4, 0, 0>>>>, <<"read">>,
              <<"LOAD", <<8, 0, 0>>>>, <<"read", <<0>>, "extra">>,
              <<"read", <<0>>>> >>),
      File(<< <<"read", <<1, 2, 3, 4>>>>, <<"write", <<1, 2, 3, 7>>>>,
              <<"load", <<10, 11, 12, 13>>>>, <<"store", <<1, 15, 15, 15, 15>>>> >>),
      File(<< <<"read", <<0>>>>, <<"read", <<NotHex, 1>>>>,
              <<"write", <<0>>>> >>) }

\* a Cache that inherits the statistics of the Cache before it
new_cache_keeps_statistics(k) ==
    LET cfg == Configuration(k)
        c == Cache(cfg.cache_size, cfg.block_size, cfg.write_policy,
                   cfg.placement)
    IN IF c.error = "none" /\ cache.error = "none"
       THEN [c EXCEPT !.total_requests = cache.total_requests,
                      !.total_hits = cache.total_hits,
                      !.bytes_to_cache = cache.bytes_to_cache,
                      !.bytes_to_memory = cache.bytes_to_memory,
                      !.access_count = cache.access_count]
       ELSE c

\* cache = Cache(cache_size, block_size, write_policy, placement)
new_cache(k) ==
    LET cfg == Configuration(k)
    IN Cache(cfg.cache_size, cfg.block_size, cfg.write_policy, cfg.placement)

InitSweep ==
    /\ trace_file \in TraceFiles
    /\ output_file = <<>>
    /\ args = Args(0, 0, 0, 0)
    /\ cache = Failed("unconstructed")
    /\ operations = <<>>
    /\ op_index = 0
    /\ hits = <<>>
    /\ config = 1
    /\ results = <<>>
    /\ pc = "read_trace"

\* operations = read_trace_file(trace_file); an exception it does not
\* handle leaves simulate_trace
SweepReadTrace ==
    /\ pc = "read_trace"
    /\ LET r == read_trace_file(trace_file) IN
       /\ operations' = r.operations
       /\ pc' = IF r.error = "none" THEN "construct" ELSE "crashed"
    /\ UNCHANGED <<trace_file, output_file, args, cache, op_index, hits,
                   config, results>>

\* the next combination, or the end of the loops
Advance(k) ==
    /\ config' = k + 1
    /\ pc' = IF k + 1 > NumConfigs THEN "write_results" ELSE "construct"

\* try: cache = Cache(...); except RuntimeError: print and continue.  Any
\* other exception leaves simulate_trace.
SweepConstruct ==
    /\ pc = "construct"
    /\ LET c == new_cache(config) IN
       /\ args' = Args(Configuration(config).cache_size,
                       Configuration(config).block_size,
                       Configuration(config).write_policy,
                       Configuration(config).placement)
       /\ cache' = c
       /\ op_index' = 0
       /\ hits' = <<>>
       /\ IF c.error = "none"
          THEN pc' = "replay" /\ config' = config
          ELSE IF c.error = "RuntimeError"
          THEN Advance(config)
          ELSE pc' = "crashed" /\ config' = config
    /\ UNCHANGED <<trace_file, output_file, operations, results>>

\* the record appended inside the replay loop, after its first iteration
record_due_in_loop == op_index >= 1 \/ op_index = Len(operations)

\* the replay loop has run through the operations
record_due == op_index = Len(operations)

\* one iteration of: for op_type, address in operations
SweepReplay ==
    /\ pc = "replay"
    /\ ~record_due
    /\ LET op_type == Lower(operations[op_index + 1][1])
           address == operations[op_index + 1][2]
       IN IF op_type = "read" \/ op_type = "load"
          THEN LET r == read(cache, address) IN
               cache' = r.cache /\ hits' = Append(hits, r.hit)
          ELSE IF op_type = "write" \/ op_type = "store"
          THEN LET r == write(cache, address) IN
               cache' = r.cache /\ hits' = Append(hits, r.hit)
          ELSE UNCHANGED <<cache, hits>>
    /\ op_index' = op_index + 1
    /\ UNCHANGED <<trace_file, output_file, args, operations, config, results,
                   pc>>

\* results.append(cache.get_result_str())
SweepRecord ==
    /\ pc = "replay"
    /\ record_due
    /\ results' = Append(results, get_result_str(cache))
    /\ Advance(config)
    /\ UNCHANGED <<trace_file, output_file, args, cache, operations, op_index,
                   hits>>

\* with open(output_file, 'w'): one line per result
SweepWriteResults ==
    /\ pc = "write_results"
    /\ output_file' = results
    /\ pc' = "done"
    /\ UNCHANGED <<trace_file, args, cache, operations, op_index, hits, config,
                   results>>

NextSweep ==
    \/ SweepReadTrace
    \/ SweepConstruct
    \/ SweepReplay
    \/ SweepRecord
    \/ SweepWriteResults

SpecSweep == InitSweep /\ [][NextSweep]_vars

\* simulate_trace is one sequential call: it runs each statement in turn
\* until it returns or an exception leaves it
SpecSweepFair == SpecSweep /\ WF_vars(NextSweep)

-----------------------------------------------------------------------------
(* Vocabulary of the properties                                            *)

OpType(k) == operations[k][1]
OpAddr(k) == operations[k][2]

\* the block (set index, tag) an address lies in
BlockOf(c, address) == <<get_block_index(c, address), get_tag(c, address)>>

\* the blocks of the requests so far, in order
Blocks == [k \in 1 .. Len(operations) |-> BlockOf(cache, OpAddr(k))]

\* request k is the first of the replay to its block
FirstAccess(k) ==
    \A j \in 1 .. k - 1 : BlockOf(cache, OpAddr(j)) # BlockOf(cache, OpAddr(k))

NumWrites == Cardinality({k \in 1 .. Len(operations) : OpType(k) = "write"})

IsGeometry(c, cache_size, block_size, placement_type) ==
    /\ c.error = "none"
    /\ c.cache_size = cache_size
    /\ c.block_size = block_size
    /\ c.placement_type = placement_type

\* a step that issued a request
Issued == Len(operations') = Len(operations) + 1

-----------------------------------------------------------------------------
(* C1  Cold start: the first request to a fresh Cache misses and leaves    *)
(* total_hits at 0, and the first request of a replay to each (set index,  *)
(* tag) pair misses.                                                       *)

C1_ColdStart ==
    /\ Len(operations) = 1 => ~hits[1] /\ cache.total_hits = 0
    /\ \A blk \in {Blocks} :
           \A k \in 1 .. Len(operations) :
               (\A j \in 1 .. k - 1 : blk[j] # blk[k]) => ~hits[k]

\* a hit on a resident block, then the first request to another block
C1_Witness ==
    /\ Len(operations) >= 3
    /\ hits[2]
    /\ FirstAccess(3)
    /\ ~hits[3]

-----------------------------------------------------------------------------
(* C2  Traffic accounting: bytes_to_cache is the number of misses times    *)
(* block_size, for every placement and both write policies.                *)

C2_TrafficAccounting ==
    cache.bytes_to_cache =
        (cache.total_requests - cache.total_hits) * cache.block_size

\* read and write requests, hits and misses, blocks of 8 bytes
C2_Witness ==
    /\ cache.block_size = 8
    /\ cache.total_hits >= 1
    /\ cache.total_requests - cache.total_hits >= 2
    /\ \E j, k \in 1 .. Len(operations) :
           /\ OpType(j) = "read" /\ ~hits[j]
           /\ OpType(k) = "write" /\ ~hits[k]

-----------------------------------------------------------------------------
(* C3  Write-through traffic: under WT bytes_to_memory is 4 times the      *)
(* number of write calls, whatever hit or missed and whatever the block    *)
(* size; reads add nothing.                                                *)

C3_WriteThroughTraffic ==
    cache.write_policy = WT => cache.bytes_to_memory = 4 * NumWrites

\* WT, blocks of 8 bytes: a write hit, a write miss and a read miss
C3_Witness ==
    /\ cache.write_policy = WT
    /\ cache.block_size = 8
    /\ \E i, j, k \in 1 .. Len(operations) :
           /\ OpType(i) = "write" /\ hits[i]
           /\ OpType(j) = "write" /\ ~hits[j]
           /\ OpType(k) = "read" /\ ~hits[k] /\ k > j

-----------------------------------------------------------------------------
(* C4  Hit-rate bound: 0 <= total_hits <= total_requests, the hit rate is  *)
(* total_hits / total_requests in [0, 1] when there were requests, and 0   *)
(* with a non-zero divisor when there were none.                           *)

C4_HitRateBound ==
    LET rate == get_hit_rate(cache) IN
    /\ 0 <= cache.total_hits
    /\ cache.total_hits <= cache.total_requests
    /\ rate.den # 0
    /\ 0 <= rate.num /\ rate.num <= rate.den
    /\ cache.total_requests > 0 =>
           rate.num * cache.total_requests = cache.total_hits * rate.den
    /\ cache.total_requests = 0 => rate.num = 0

\* a replay with hits and misses
C4_Witness ==
    /\ cache.total_hits >= 2
    /\ cache.total_hits < cache.total_requests

-----------------------------------------------------------------------------
(* C5  Determinism and independence: a second Cache constructed            *)
(* independently for the same configuration and given the same operations  *)
(* returns the same hit / miss values, ends in the same block state and    *)
(* gives the same result record as the Cache of the sweep, whatever        *)
(* configurations the sweep simulated before.                              *)

\* a Cache built for configuration k outside the sweep
TwinCache(k) ==
    Cache(Configuration(k).cache_size, Configuration(k).block_size,
          Configuration(k).write_policy, Configuration(k).placement)

RECURSIVE TwinReplay(_, _, _)
\* the twin after the first n operations of ops
TwinReplay(c, ops, n) ==
    IF n = 0 THEN [cache |-> c, hits |-> <<>>]
    ELSE LET before == TwinReplay(c, ops, n - 1)
             op_type == Lower(ops[n][1])
         IN IF op_type \in {"read", "load"}
            THEN LET r == read(before.cache, ops[n][2]) IN
                 [cache |-> r.cache, hits |-> Append(before.hits, r.hit)]
            ELSE IF op_type \in {"write", "store"}
            THEN LET r == write(before.cache, ops[n][2]) IN
                 [cache |-> r.cache, hits |-> Append(before.hits, r.hit)]
            ELSE before

C5_Determinism ==
    [][ /\ pc' = "replay" =>
              LET twin == TwinReplay(TwinCache(config'), operations', op_index')
              IN cache' = twin.cache /\ hits' = twin.hits
        /\ results' # results =>
              LET twin == TwinReplay(TwinCache(config), operations,
                                     Len(operations))
              IN results' = Append(results, get_result_str(twin.cache)) ]_vars

\* the sweep is over; its last configuration saw hits and memory writes
C5_Witness ==
    /\ pc = "done"
    /\ Len(results) = NumConfigs
    /\ results[NumConfigs][7] >= 1
    /\ results[NumConfigs][10] > 0
    /\ results[1][7] = 0

-----------------------------------------------------------------------------
(* C6  Geometry invariant.  As claimed: every constructed non-FA Cache has *)
(* num_ways in {1, 2, 4} and num_sets * num_ways * block_size =            *)
(* cache_size; every constructed FA Cache has num_ways = cache_size /      *)
(* block_size, num_sets = 1, set_bits = 0; the Cache holds num_sets Sets   *)
(* of num_ways Blocks; tag_shift = offset_bits + set_bits.                 *)

GeometryShape(c) ==
    /\ DOMAIN c.sets = 0 .. c.num_sets - 1
    /\ \A s \in DOMAIN c.sets : DOMAIN c.sets[s] = 0 .. c.num_ways - 1
    /\ c.tag_shift = c.offset_bits + c.set_bits

GeometryFA(c) ==
    c.placement_type = Fully_Associative =>
        /\ c.num_ways = c.cache_size \div c.block_size
        /\ c.num_sets = 1
        /\ c.set_bits = 0

C6_Original ==
    cache.error = "none" =>
        /\ cache.placement_type # Fully_Associative =>
               /\ cache.num_ways \in {1, 2, 4}
               /\ cache.num_sets * cache.num_ways * cache.block_size
                      = cache.cache_size
        /\ GeometryFA(cache)
        /\ GeometryShape(cache)

(* C6 as amended: the product num_sets * num_ways * block_size never       *)
(* exceeds cache_size and equals it exactly when cache_size is a multiple  *)
(* of num_ways * block_size; the rest as claimed.                          *)

C6_GeometryInvariant ==
    cache.error = "none" =>
        /\ cache.placement_type # Fully_Associative =>
               /\ cache.num_ways \in {1, 2, 4}
               /\ cache.num_sets * cache.num_ways * cache.block_size
                      <= cache.cache_size
               /\ (cache.num_sets * cache.num_ways * cache.block_size
                      = cache.cache_size)
                  <=> (cache.cache_size % (cache.num_ways * cache.block_size) = 0)
        /\ GeometryFA(cache)
        /\ GeometryShape(cache)

\* a 2-way Cache of 26 bytes in blocks of 4: 3 sets, the product is 24
C6_Witness ==
    /\ IsGeometry(cache, 26, 4, Two_Way)
    /\ cache.num_sets = 3

-----------------------------------------------------------------------------
(* C7  Conflict miss: in a direct-mapped Cache, requests alternating       *)
(* between two addresses of the same set index and different tags never    *)
(* hit; 32 bytes in blocks of 4 give num_sets 8, offset_bits 2, set_bits   *)
(* 3, tag_shift 5, and read 0x00, read 0x20, read 0x00 ends with 3         *)
(* requests and 0 hits.                                                    *)

Alternates(a, b) ==
    \A k \in 1 .. Len(operations) : OpAddr(k) = IF k % 2 = 1 THEN a ELSE b

ScenarioA == << <<"read", 0>>, <<"read", 32>>, <<"read", 0>> >>

C7_ConflictMiss ==
    /\ cache.placement_type = Direct_Mapped =>
           \A a, b \in Addresses :
               ( /\ Alternates(a, b)
                 /\ get_block_index(cache, a) = get_block_index(cache, b)
                 /\ get_tag(cache, a) # get_tag(cache, b) )
               => \A k \in 1 .. Len(hits) : ~hits[k]
    /\ IsGeometry(cache, 32, 4, Direct_Mapped) =>
           /\ cache.num_sets = 8
           /\ cache.offset_bits = 2
           /\ cache.set_bits = 3
           /\ cache.tag_shift = 5
           /\ operations = ScenarioA =>
                  cache.total_requests = 3 /\ cache.total_hits = 0

C7_Witness ==
    /\ IsGeometry(cache, 32, 4, Direct_Mapped)
    /\ operations = ScenarioA
    /\ hits = <<FALSE, FALSE, FALSE>>

-----------------------------------------------------------------------------
(* C8  Hit after install: a request to the block of the request just       *)
(* before it, at any offset, hits and fetches nothing; on the scenario-A   *)
(* geometry read 0x00, read 0x00 ends with 2 requests, 1 hit and 4 bytes   *)
(* fetched.                                                                *)

ScenarioB == << <<"read", 0>>, <<"read", 0>> >>

C8_HitAfterInstall ==
    [][ Issued =>
          /\ ( /\ operations # <<>>
               /\ BlockOf(cache, OpAddr(Len(operations)))
                      = BlockOf(cache, operations'[Len(operations')][2]) )
             => /\ hits'[Len(hits')]
                /\ cache'.bytes_to_cache = cache.bytes_to_cache
          /\ ( /\ IsGeometry(cache, 32, 4, Direct_Mapped)
               /\ operations' = ScenarioB )
             => /\ cache'.total_requests = 2
                /\ cache'.total_hits = 1
                /\ cache'.bytes_to_cache = 4 ]_vars

\* a write to a block, then a read of the same block at another offset
C8_Witness ==
    /\ Len(operations) = 3
    /\ operations[2] = <<"write", 0>>
    /\ operations[3] = <<"read", 2>>
    /\ ~hits[2]
    /\ hits[3]

-----------------------------------------------------------------------------
(* C9  Write-back dirty eviction: under WB bytes_to_memory changes only on *)
(* a miss whose victim is valid and dirty, and then by block_size; 8 bytes *)
(* in blocks of 4, direct-mapped, WB, with write 0x00, write 0x08 ends     *)
(* with 4 bytes written to memory and 8 fetched.                           *)

ScenarioC == << <<"write", 0>>, <<"write", 8>> >>

\* the way the request of this step stamped
TouchedWay(set_index) ==
    CHOOSE w \in DOMAIN cache.sets[set_index] :
        cache'.sets[set_index][w].last_used = cache'.access_count

C9_DirtyEviction ==
    [][ (Issued /\ cache.write_policy = WB) =>
          LET set_index == get_block_index(cache, operations'[Len(operations')][2])
              victim == cache.sets[set_index][TouchedWay(set_index)]
              evicts == /\ ~hits'[Len(hits')]
                        /\ victim.valid
                        /\ victim.dirty
          IN /\ cache'.bytes_to_memory =
                    cache.bytes_to_memory + IF evicts THEN cache.block_size ELSE 0
             /\ ( /\ IsGeometry(cache, 8, 4, Direct_Mapped)
                  /\ operations' = ScenarioC )
                => /\ cache'.bytes_to_memory = 4
                   /\ cache'.bytes_to_cache = 8 ]_vars

\* WB: a dirty line written back by a read miss, a clean one replaced since
C9_Witness ==
    /\ cache.write_policy = WB
    /\ cache.block_size = 8
    /\ cache.num_ways = 2
    /\ cache.bytes_to_memory = 8
    /\ Len(operations) = 4
    /\ OpType(1) = "write"
    /\ \A k \in 2 .. 4 : OpType(k) = "read" /\ ~hits[k]

-----------------------------------------------------------------------------
(* C10  No duplicate resident tags: within a Set at most one Block is      *)
(* valid with a given tag.                                                 *)

C10_NoDuplicateTags ==
    \A s \in DOMAIN cache.sets :
        \A v, w \in DOMAIN cache.sets[s] :
            ( /\ v # w
              /\ cache.sets[s][v].valid
              /\ cache.sets[s][w].valid )
            => cache.sets[s][v].tag # cache.sets[s][w].tag

\* a full 2-way set after an eviction and a hit on the younger way
C10_Witness ==
    /\ cache.num_ways = 2
    /\ \A w \in DOMAIN cache.sets[0] : cache.sets[0][w].valid
    /\ cache.total_requests - cache.total_hits >= 3
    /\ cache.total_hits >= 1
    /\ hits[Len(hits)]

-----------------------------------------------------------------------------
(* C11  Construction with cache_size 0, block_size 0 or an unrecognized    *)
(* placement fails with RuntimeError and produces no Cache; construction   *)
(* with a cache size, a block size and a placement of the sweep never      *)
(* fails.                                                                  *)

SeqRange(q) == {q[i] : i \in DOMAIN q}

Returned == pc # "construct"

C11_ConstructionErrors ==
    Returned =>
        /\ ( \/ args.cache_size = 0
             \/ args.block_size = 0
             \/ args.placement_type \notin PlacementTypes )
           => cache = [error |-> "RuntimeError"]
        /\ ( /\ args.cache_size \in SeqRange(cache_sizes)
             /\ args.block_size \in SeqRange(block_sizes)
             /\ args.placement_type \in SeqRange(placement_types) )
           => cache.error = "none"

\* a recognized geometry with an unrecognized placement was refused
C11_Witness ==
    /\ Returned
    /\ args.cache_size = 32
    /\ args.block_size = 4
    /\ args.placement_type = 4
    /\ cache.error = "RuntimeError"

-----------------------------------------------------------------------------
(* C12  Construction with an unrecognized write policy (neither WB nor     *)
(* WT) fails with RuntimeError.                                            *)

C12_Original ==
    (Returned /\ args.write_policy \notin WritePolicies)
        => cache.error = "RuntimeError"

-----------------------------------------------------------------------------
(* C13  For every trace, simulate_trace ends having written exactly 128    *)
(* records, one for each combination of cache size {1024, 2048, 8192,      *)
(* 65536}, block size {4, 8, 32, 256}, placement {DM, 2W, 4W, FA} and      *)
(* write policy {WB, WT}, ordered with the cache size outermost, then the  *)
(* block size, then the placement, and the write policy innermost.  A      *)
(* trace is a file (or a missing file) whose two-field lines carry a       *)
(* hexadecimal address.                                                    *)

IsTrace(file) == read_trace_file(file).error = "none"

Position(list, v) == CHOOSE i \in DOMAIN list : list[i] = v

\* where a record stands in each of the four listed orders
SweepKey(record) ==
    << Position(<<1024, 2048, 8192, 65536>>, record[1]),
       Position(<<4, 8, 32, 256>>, record[2]),
       Position(<<"DM", "2W", "4W", "FA">>, record[3]),
       Position(<<"WB", "WT">>, record[5]) >>

RECURSIVE LexLess(_, _)
LexLess(a, b) ==
    /\ a # <<>>
    /\ \/ Head(a) < Head(b)
       \/ Head(a) = Head(b) /\ LexLess(Tail(a), Tail(b))

SweepComplete(records) ==
    /\ Len(records) = 128
    /\ \A k \in 1..Len(records) :
           /\ records[k][1] \in {1024, 2048, 8192, 65536}
           /\ records[k][2] \in {4, 8, 32, 256}
           /\ records[k][3] \in {"DM", "2W", "4W", "FA"}
           /\ records[k][5] \in {"WB", "WT"}
    /\ \A k \in 1..(Len(records) - 1) :
           LexLess(SweepKey(records[k]), SweepKey(records[k + 1]))

C13_SweepCompleteness ==
    IsTrace(trace_file) ~> (pc = "done" /\ SweepComplete(output_file))

\* the sweep has finished on a trace of three operations
C13_Witness ==
    /\ pc = "done"
    /\ Len(operations) = 3
    /\ Len(output_file) = 128
    /\ output_file[1][1] = 1024
    /\ output_file[128][1] = 65536

-----------------------------------------------------------------------------
(* C15  In the replay, an operation named read or load, in any case, is    *)
(* exactly one Cache.read of its address, one named write or store is      *)
(* exactly one Cache.write of its address, and any other operation changes *)
(* nothing in the Cache; total_requests is the number of operations        *)
(* replayed so far that carry one of these four names.                     *)

ReadNames == {"read", "READ", "Read", "load", "LOAD", "Load"}
WriteNames == {"write", "WRITE", "Write", "store", "STORE", "Store"}

\* a step of the replay loop
Replayed == pc = "replay" /\ op_index' = op_index + 1

Recognized(n) ==
    Cardinality({k \in 1 .. n : OpType(k) \in ReadNames \cup WriteNames})

C15_OperationMapping ==
    [][ /\ Replayed =>
            LET k == op_index + 1 IN
            /\ OpType(k) \in ReadNames
                   => cache' = read(cache, OpAddr(k)).cache
            /\ OpType(k) \in WriteNames
                   => cache' = write(cache, OpAddr(k)).cache
            /\ OpType(k) \notin ReadNames \cup WriteNames
                   => cache' = cache
        /\ pc' = "replay" => cache'.total_requests = Recognized(op_index')
      ]_vars

\* fetch 0, WRITE 04, READ 104 replayed: two requests
C15_Witness ==
    /\ pc = "replay"
    /\ op_index = 3
    /\ OpType(1) = "fetch"
    /\ OpType(2) = "WRITE"
    /\ OpType(3) = "READ"
    /\ cache.total_requests = 2

-----------------------------------------------------------------------------
(* C16  Every line of the trace file that does not split into exactly two  *)
(* fields is skipped without error, and the lines that do are all          *)
(* delivered as the operation sequence, in their order in the file.  The   *)
(* second field of a two-field line is a hexadecimal address, as the trace *)
(* format has it.                                                          *)

TwoFields(line) == Len(line) = 2

HexAddresses(file) ==
    \A i \in DOMAIN file.lines :
        TwoFields(file.lines[i]) =>
            \A j \in DOMAIN file.lines[i][2] : file.lines[i][2][j] \in 0 .. 15

Delivered(file) ==
    LET kept == SelectSeq(file.lines, TwoFields)
    IN [k \in 1 .. Len(kept) |-> <<kept[k][1], HexInt(kept[k][2])>>]

TraceRead == pc # "read_trace"

C16_MalformedLinesSkipped ==
    (TraceRead /\ trace_file.exists /\ HexAddresses(trace_file)) =>
        /\ pc # "crashed"
        /\ operations = Delivered(trace_file)

\* a file of seven lines, three of them malformed, has been read
C16_Witness ==
    /\ TraceRead
    /\ Len(trace_file.lines) = 7
    /\ Len(SelectSeq(trace_file.lines, TwoFields)) = 4
    /\ operations = << <<"store", 0>>, <<"write", 1024>>, <<"LOAD", 2048>>,
                       <<"read", 0>> >>

-----------------------------------------------------------------------------
(* C17  When the trace file does not exist, read_trace_file returns the    *)
(* empty operation sequence and does not fail, and the sweep emits a       *)
(* record for every configuration with total_requests, total_hits, hit     *)
(* rate, bytes_to_cache and bytes_to_memory all 0.                         *)

ZeroStatistics(record) == \A f \in 6 .. 10 : record[f] = 0

C17_MissingTraceFile ==
    ~trace_file.exists =>
        /\ pc # "crashed"
        /\ operations = <<>>
        /\ \A k \in DOMAIN results : ZeroStatistics(results[k])
        /\ pc \in {"write_results", "done"} => Len(results) = 128
        /\ pc = "done" => output_file = results

\* the sweep has finished without a trace file
C17_Witness ==
    /\ ~trace_file.exists
    /\ pc = "done"
    /\ Len(output_file) = 128
    /\ ZeroStatistics(output_file[128])

-----------------------------------------------------------------------------
(* C18  The record emitted for a configuration is produced after the whole *)
(* trace has been replayed and carries, in this order: cache_size,         *)
(* block_size, the code DM, 2W, 4W or FA of the configured placement,      *)
(* num_ways (1, 2, 4, or cache_size / block_size for FA), the code WB or   *)
(* WT of the configured write policy, and the Cache's total_requests,      *)
(* total_hits, hit rate (to the nearest hundredth), bytes_to_cache and     *)
(* bytes_to_memory.                                                        *)

\* a step that emits a record
Recorded == Len(results') = Len(results) + 1

PlacementCode(placement_type) ==
    CASE placement_type = Direct_Mapped -> "DM"
      [] placement_type = Two_Way -> "2W"
      [] placement_type = Four_Way -> "4W"
      [] placement_type = Fully_Associative -> "FA"

Ways(a) ==
    CASE a.placement_type = Direct_Mapped -> 1
      [] a.placement_type = Two_Way -> 2
      [] a.placement_type = Four_Way -> 4
      [] a.placement_type = Fully_Associative -> a.cache_size \div a.block_size

\* h hundredths is a nearest hundredth of hit / total
NearestHundredth(h, hit, total) ==
    IF total = 0 THEN h = 0
    ELSE /\ 2 * (100 * hit - h * total) <= total
         /\ 2 * (h * total - 100 * hit) <= total

C18_RecordContent ==
    [][ Recorded =>
            LET record == results'[Len(results')] IN
            /\ op_index = Len(operations)
            /\ results' = Append(results, record)
            /\ Len(record) = 10
            /\ record[1] = args.cache_size
            /\ record[2] = args.block_size
            /\ record[3] = PlacementCode(args.placement_type)
            /\ record[4] = Ways(args)
            /\ record[5] = (IF args.write_policy = WB THEN "WB" ELSE "WT")
            /\ args.write_policy \in {WB, WT}
            /\ record[6] = cache.total_requests
            /\ record[6] = Recognized(Len(operations))
            /\ record[7] = cache.total_hits
            /\ NearestHundredth(record[8], cache.total_hits,
                                cache.total_requests)
            /\ record[9] = cache.bytes_to_cache
            /\ record[10] = cache.bytes_to_memory
      ]_vars

\* the record of 1024 / 4 / 2W / WT after write 0, Store 10000, load 2:
\* three requests, one hit, rate 0.33, 8 bytes in, 8 bytes out
C18_Witness ==
    /\ Len(results) >= 4
    /\ Len(operations) = 3
    /\ OpType(2) = "Store"
    /\ results[4] = <<1024, 4, "2W", 2, "WT", 3, 1, 33, 8, 8>>

-----------------------------------------------------------------------------
(* C19  Within one configuration the operations of the trace are applied   *)
(* to the Cache one at a time in file order, and the configuration's       *)
(* record is produced only after the last operation has been applied: an   *)
(* operation of configuration k is applied only when exactly the records   *)
(* of the configurations before k exist.                                   *)

\* the Cache after one operation of the trace
Applied(c, op) ==
    IF op[1] \in ReadNames THEN read(c, op[2]).cache
    ELSE IF op[1] \in WriteNames THEN write(c, op[2]).cache
    ELSE c

C19_SequentialReplay ==
    [][ /\ Replayed =>
            /\ op_index < Len(operations)
            /\ cache' = Applied(cache, operations[op_index + 1])
            /\ Len(results) = config - 1
            /\ results' = results
            /\ config' = config
        /\ Recorded =>
            /\ op_index = Len(operations)
            /\ Len(results) = config - 1
            /\ config' = config + 1
            /\ cache' = cache
        /\ op_index' # op_index => Replayed \/ op_index' = 0
        /\ cache' # cache => Replayed \/ (pc = "construct" /\ op_index' = 0)
      ]_vars

\* the second configuration is two operations into a trace of three
C19_Witness ==
    /\ pc = "replay"
    /\ config = 2
    /\ Len(results) = 1
    /\ Len(operations) = 3
    /\ op_index = 2
    /\ cache.total_requests = 2

-----------------------------------------------------------------------------
(* C20  access_count starts at 0, never decreases and grows by exactly one *)
(* with every read and every write, hit or miss, so that access_count      *)
(* equals total_requests in every state; after a request the Block it      *)
(* touched, and no other Block, has last_used equal to access_count.       *)

\* the blocks (set, way) of c stamped with c's access_count
StampedNow(c) ==
    {sw \in (0 .. c.num_sets - 1) \X (0 .. c.num_ways - 1) :
         c.sets[sw[1]][sw[2]].last_used = c.access_count}

C20_LogicalClock ==
    /\ cache.access_count = 0
    /\ [][ /\ cache'.access_count >= cache.access_count
           /\ cache'.access_count = cache'.total_requests
           /\ Issued =>
                LET address == operations'[Len(operations')][2]
                    set_index == get_block_index(cache, address)
                IN /\ cache'.access_count = cache.access_count + 1
                   /\ \E w \in 0 .. cache.num_ways - 1 :
                          /\ StampedNow(cache') = {<<set_index, w>>}
                          /\ cache'.sets[set_index][w].valid
                          /\ cache'.sets[set_index][w].tag
                                 = get_tag(cache, address)
         ]_vars

\* three requests, a read miss last: its block carries stamp 3
C20_Witness ==
    /\ pc = "replay"
    /\ Len(operations) = 3
    /\ OpType(3) = "read"
    /\ hits = <<FALSE, TRUE, FALSE>>
    /\ cache.access_count = 3
    /\ cache.total_requests = 3
    /\ StampedNow(cache) # {}

-----------------------------------------------------------------------------
(* C21  find_lru_block returns the lowest-indexed invalid way of the set   *)
(* if any way is invalid; otherwise it returns a way with the smallest     *)
(* last_used, the lowest-indexed of them if several ways share it.         *)

SetIndices(c) == 0 .. c.num_sets - 1
WayIndices(c) == 0 .. c.num_ways - 1

InvalidWays(c, s) == {w \in WayIndices(c) : ~c.sets[s][w].valid}

\* way v is the lowest-indexed of the ways of set s with the smallest stamp
OldestWay(c, s, v) ==
    /\ \A w \in WayIndices(c) : c.sets[s][v].last_used <= c.sets[s][w].last_used
    /\ \A w \in WayIndices(c) :
           c.sets[s][w].last_used = c.sets[s][v].last_used => v <= w

-----------------------------------------------------------------------------
(* C22  After a read that misses, the victim way of the addressed set is   *)
(* valid, clean and holds the requested tag, under both write policies and *)
(* also when the victim was dirty before; a read that hits leaves the      *)
(* dirty bit of the Block it hit as it was.                                *)

\* the request issued by the step, and whether it hit
IssuedType == operations'[Len(operations')][1]
IssuedAddr == operations'[Len(operations')][2]
IssuedHit == hits'[Len(hits')]

\* the ways of set s that hold tag
Holding(c, s, tag) ==
    {w \in WayIndices(c) : c.sets[s][w].valid /\ c.sets[s][w].tag = tag}

C22_ReadMissInstall ==
    [][ (Issued /\ IssuedType = "read") =>
            LET s == get_block_index(cache, IssuedAddr)
                tag == get_tag(cache, IssuedAddr)
            IN IF IssuedHit
               THEN \A w \in Holding(cache, s, tag) :
                        cache'.sets[s][w].dirty = cache.sets[s][w].dirty
               ELSE LET v == find_lru_block(cache, s) IN
                    /\ cache'.sets[s][v].valid
                    /\ ~cache'.sets[s][v].dirty
                    /\ cache'.sets[s][v].tag = tag
      ]_vars

\* write 0, read 8 on 8 / 4 / DM / WB: the read miss replaced a dirty block
C22_Witness ==
    /\ IsGeometry(cache, 8, 4, Direct_Mapped)
    /\ cache.write_policy = WB
    /\ operations = << <<"write", 0>>, <<"read", 8>> >>
    /\ hits = <<FALSE, FALSE>>
    /\ cache.bytes_to_memory = 4
    /\ cache.sets[0][0] = [valid |-> TRUE, dirty |-> FALSE, tag |-> 1,
                           last_used |-> 2]

-----------------------------------------------------------------------------
(* C23  Under write-back, after any write, hit or miss, the Block that     *)
(* holds the address's tag in its set is valid and dirty, and the write    *)
(* added nothing to bytes_to_memory unless it evicted a valid dirty        *)
(* victim.                                                                 *)

\* the write of the step missed and its victim was valid and dirty
EvictedDirty ==
    /\ ~IssuedHit
    /\ LET s == get_block_index(cache, IssuedAddr)
           victim == cache.sets[s][find_lru_block(cache, s)]
       IN victim.valid /\ victim.dirty

C23_WriteBackDirtying ==
    [][ (Issued /\ IssuedType = "write" /\ cache.write_policy = WB) =>
            LET s == get_block_index(cache, IssuedAddr)
                tag == get_tag(cache, IssuedAddr)
            IN /\ Holding(cache', s, tag) # {}
               /\ \A w \in Holding(cache', s, tag) : cache'.sets[s][w].dirty
               /\ ~EvictedDirty =>
                      cache'.bytes_to_memory = cache.bytes_to_memory
      ]_vars

\* read 0, write 0 under WB: the write hit a clean block and dirtied it
C23_Witness ==
    /\ cache.write_policy = WB
    /\ operations = << <<"read", 0>>, <<"write", 0>> >>
    /\ hits = <<FALSE, TRUE>>
    /\ cache.bytes_to_memory = 0
    /\ \E w \in WayIndices(cache) :
           cache.sets[0][w].valid /\ cache.sets[0][w].dirty

-----------------------------------------------------------------------------
(* C24  In a Cache with write policy WT no Block is dirty, in any state    *)
(* reached by reads and writes.                                            *)

C24_WriteThroughNeverDirty ==
    cache.write_policy = WT =>
        \A s \in SetIndices(cache), w \in WayIndices(cache) :
            ~cache.sets[s][w].dirty

\* a write-through cache after a write miss and a write hit
C24_Witness ==
    /\ cache.write_policy = WT
    /\ operations = << <<"write", 0>>, <<"write", 0>> >>
    /\ hits = <<FALSE, TRUE>>
    /\ cache.bytes_to_memory = 8

-----------------------------------------------------------------------------
(* C25  For every address of the trace and every geometry of the sweep,    *)
(* the tag is address >> tag_shift, the index is (address >> offset_bits)  *)
(* & (2^set_bits - 1) (0 for fully-associative) and the offset is address  *)
(* & (block_size - 1); the three fields reassemble the address as          *)
(* tag * 2^tag_shift + index * 2^offset_bits + offset; and two addresses   *)
(* get the same (tag, index) exactly when they lie in the same             *)
(* block_size-aligned block.                                               *)

TraceAddresses == {operations[k][2] : k \in DOMAIN operations}

Decomposes(c, address) ==
    /\ get_tag(c, address) = address \div 2 ^ c.tag_shift
    /\ get_block_index(c, address) =
           IF c.placement_type = Fully_Associative THEN 0
           ELSE (address \div 2 ^ c.offset_bits) % 2 ^ c.set_bits
    /\ get_block_offset(c, address) = address % c.block_size
    /\ address = get_tag(c, address) * 2 ^ c.tag_shift
                     + get_block_index(c, address) * 2 ^ c.offset_bits
                     + get_block_offset(c, address)

C25_AddressDecomposition ==
    (pc = "replay" /\ cache.error = "none") =>
        /\ \A a \in TraceAddresses : Decomposes(cache, a)
        /\ \A a, b \in TraceAddresses :
               BlockOf(cache, a) = BlockOf(cache, b)
                   <=> a \div cache.block_size = b \div cache.block_size

\* 1024 / 32 / 2W decodes 0x1237 into tag 9, index 1, offset 23
C25_Witness ==
    /\ pc = "replay"
    /\ IsGeometry(cache, 1024, 32, Two_Way)
    /\ 4663 \in TraceAddresses
    /\ get_tag(cache, 4663) = 9
    /\ get_block_index(cache, 4663) = 1
    /\ get_block_offset(cache, 4663) = 23
    /\ BlockOf(cache, 4663) = BlockOf(cache, 4660)

-----------------------------------------------------------------------------
(* C26  For every successfully constructed Cache and every address, the    *)
(* decoded set index satisfies 0 <= index < num_sets, so a read or a write *)
(* never indexes outside the Cache's Sets and never fails.                 *)

C26_AddressesNeverFault ==
    /\ pc # "IndexError"
    /\ cache.error = "none" =>
           \A address \in FirstAddresses :
               /\ 0 <= get_block_index(cache, address)
               /\ get_block_index(cache, address) < cache.num_sets
               /\ get_block_index(cache, address) \in DOMAIN cache.sets

\* a Cache of three sets has served a request to address 63 in its set 1
C26_Witness ==
    /\ pc = "returned"
    /\ IsGeometry(cache, 12, 4, Direct_Mapped)
    /\ cache.num_sets = 3
    /\ operations = << <<"write", 63>> >>
    /\ get_block_index(cache, 63) = 1
    /\ cache.sets[1][0].valid
    /\ cache.total_requests = 1

-----------------------------------------------------------------------------
(* C27  A read or write to an address with set index s leaves every Block  *)
(* of every other set unchanged.  On a hit it leaves the valid bit and the *)
(* tag of every Block of set s and bytes_to_cache unchanged and changes    *)
(* only total_requests, total_hits, access_count, the last_used of the     *)
(* Block it hit and, for a write, that Block's dirty bit under WB or       *)
(* bytes_to_memory under WT.  On a miss it modifies exactly one Block of   *)
(* set s.                                                                  *)

Counters ==
    {"total_requests", "total_hits", "bytes_to_cache", "bytes_to_memory",
     "access_count"}

\* the ways of set s whose Block the step changed
ChangedWays(s) ==
    {w \in WayIndices(cache) : cache'.sets[s][w] # cache.sets[s][w]}

HitFrame(s, tag) ==
    \E h \in Holding(cache, s, tag) :
        /\ ChangedWays(s) = {h}
        /\ cache'.sets[s][h].valid
        /\ cache'.sets[s][h].tag = tag
        /\ cache'.sets[s][h].dirty # cache.sets[s][h].dirty
               => IssuedType = "write" /\ cache.write_policy = WB
        /\ cache'.bytes_to_cache = cache.bytes_to_cache
        /\ cache'.bytes_to_memory # cache.bytes_to_memory
               => IssuedType = "write" /\ cache.write_policy = WT

C27_AccessFrame ==
    [][ Issued =>
            LET s == get_block_index(cache, IssuedAddr)
                tag == get_tag(cache, IssuedAddr)
            IN /\ \A f \in DOMAIN cache \ (Counters \cup {"sets"}) :
                      cache'[f] = cache[f]
               /\ \A other \in SetIndices(cache) \ {s} :
                      cache'.sets[other] = cache.sets[other]
               /\ IF IssuedHit
                  THEN HitFrame(s, tag)
                  ELSE /\ Cardinality(ChangedWays(s)) = 1
                       /\ cache'.total_hits = cache.total_hits
      ]_vars

\* 32 / 4 / DM / WT after write 0, read 4, write 0: the last write hit in
\* set 0 while set 1 held a block
C27_Witness ==
    /\ IsGeometry(cache, 32, 4, Direct_Mapped)
    /\ cache.write_policy = WT
    /\ operations = << <<"write", 0>>, <<"read", 4>>, <<"write", 0>> >>
    /\ hits = <<FALSE, FALSE, TRUE>>
    /\ cache.sets[1][0].valid
    /\ cache.sets[0][0].last_used = 3
    /\ cache.bytes_to_memory = 8

-----------------------------------------------------------------------------
(* C28  An access to block b (tag, index) hits if and only if b was        *)
(* accessed before and fewer than num_ways distinct other blocks of the    *)
(* same set index have been accessed since the most recent access to b;    *)
(* equivalently, each set always holds exactly the min(num_ways, number of *)
(* distinct blocks seen) most recently accessed distinct blocks of its     *)
(* index, so that the block an access drops out of a set is the least      *)
(* recently accessed one it held.                                          *)

\* the distinct other blocks of the set index of request j requested
\* after j and before request k
Between(blk, j, k) ==
    {blk[i] : i \in {i \in j + 1 .. k - 1 :
                         blk[i][1] = blk[j][1] /\ blk[i] # blk[j]}}

\* request j is the most recent one before k to the block of k
Previous(blk, j, k) ==
    /\ j < k
    /\ blk[j] = blk[k]
    /\ \A i \in j + 1 .. k - 1 : blk[i] # blk[k]

\* the requests to set index s that are the last to their block
LastAccesses(blk, s) ==
    {k \in DOMAIN blk :
         blk[k][1] = s /\ \A i \in k + 1 .. Len(blk) : blk[i] # blk[k]}

\* the blocks of set index s of which fewer than num_ways others were
\* requested more recently
MostRecent(blk, s, num_ways) ==
    \* the singleton binds the set of last requests once
    UNION { {blk[k] : k \in {k \in last :
                                 Cardinality({i \in last : i > k}) < num_ways}} :
            last \in {LastAccesses(blk, s)} }

Resident(c, s) ==
    {<<s, c.sets[s][w].tag>> : w \in {w \in WayIndices(c) : c.sets[s][w].valid}}

\* every state follows its last request, and every shorter history is a
\* state of its own
LRUContent ==
    \A blk \in {Blocks} :
    LET n == Len(operations)
    IN /\ n >= 1 =>
              ( hits[n] <=>
                    \E j \in 1 .. n - 1 :
                        /\ Previous(blk, j, n)
                        /\ Cardinality(Between(blk, j, n)) < cache.num_ways )
       /\ \A s \in SetIndices(cache) :
              IF \A k \in 1 .. n : blk[k][1] # s
              THEN InvalidWays(cache, s) = WayIndices(cache)
              ELSE \A recent \in {MostRecent(blk, s, cache.num_ways)} :
                   /\ Resident(cache, s) = recent
                   /\ Cardinality(InvalidWays(cache, s))
                          = cache.num_ways - Cardinality(recent)

C28_TrueLRU == []LRUContent

\* 16 / 8 / 2W after reads of 0, 8, 0, 16: block 1 (address 8), the least
\* recently used, gave way to block 2
C28_Witness ==
    /\ IsGeometry(cache, 16, 8, Two_Way)
    /\ operations = << <<"read", 0>>, <<"read", 8>>, <<"read", 0>>,
                       <<"read", 16>> >>
    /\ hits = <<FALSE, FALSE, TRUE, FALSE>>
    /\ Resident(cache, 0) = {<<0, 0>>, <<0, 2>>}

-----------------------------------------------------------------------------
(* C29  Replaying the same operations against a WB Cache and a WT Cache of *)
(* the same cache_size, block_size and placement gives the same hit or     *)
(* miss for every operation, the same valid bit, tag and last_used in      *)
(* every Block after every operation, and the same total_requests,         *)
(* total_hits and bytes_to_cache; only dirty bits and bytes_to_memory may  *)
(* differ.                                                                 *)

OtherPolicy(write_policy) == IF write_policy = WB THEN WT ELSE WB

\* a Cache of the other write policy after the operations replayed so far
OtherPolicyTwin ==
    TwinReplay(Cache(args.cache_size, args.block_size,
                     OtherPolicy(args.write_policy), args.placement_type),
               operations, op_index)

PolicyBlind(block) ==
    [valid |-> block.valid, tag |-> block.tag, last_used |-> block.last_used]

\* the fields of a record that do not tell the write policy
PolicyBlindRecord(record) ==
    << record[1], record[2], record[3], record[4], record[6], record[7],
       record[8], record[9] >>

C29_PolicyIndependentHits ==
    /\ pc = "replay" =>
           \A twin \in {OtherPolicyTwin} :
               /\ twin.hits = hits
               /\ twin.cache.write_policy # cache.write_policy
               /\ \A f \in DOMAIN cache
                          \ {"sets", "write_policy", "bytes_to_memory"} :
                      twin.cache[f] = cache[f]
               /\ \A s \in SetIndices(cache), w \in WayIndices(cache) :
                      PolicyBlind(twin.cache.sets[s][w])
                          = PolicyBlind(cache.sets[s][w])
    \* the sweep replays each geometry under WB and then under WT
    /\ \A k \in 1 .. Len(results) \div 2 :
           /\ results[2 * k - 1][5] = "WB"
           /\ results[2 * k][5] = "WT"
           /\ PolicyBlindRecord(results[2 * k - 1])
                  = PolicyBlindRecord(results[2 * k])

\* 1024 / 4 / DM / WB after store 0, write 400: write-back has written the
\* evicted block, write-through two words
C29_Witness ==
    /\ pc = "replay"
    /\ IsGeometry(cache, 1024, 4, Direct_Mapped)
    /\ cache.write_policy = WB
    /\ op_index = 2
    /\ operations[1] = <<"store", 0>>
    /\ operations[2] = <<"write", 1024>>
    /\ hits = <<FALSE, FALSE>>
    /\ cache.bytes_to_memory = 4
    /\ cache.sets[0][0].dirty
    /\ OtherPolicyTwin.cache.bytes_to_memory = 8
    /\ ~OtherPolicyTwin.cache.sets[0][0].dirty

-----------------------------------------------------------------------------
(* C30  A Block once valid never becomes invalid again; the valid Blocks   *)
(* of each set occupy a prefix of the way indices (ways 0..k-1 valid, the  *)
(* rest invalid); and a valid Block is replaced only when every way of its *)
(* set is valid, so no resident line is evicted while the set has an empty *)
(* way.                                                                    *)

\* the valid ways of set s of c are the ways 0 .. k-1 for some k
ValidPrefix(c, s) ==
    \A w \in WayIndices(c) :
        c.sets[s][w].valid => \A u \in 0 .. w - 1 : c.sets[s][u].valid

C30_ColdFillFirst ==
    [][ /\ \A s \in SetIndices(cache) :
               /\ ValidPrefix(cache', s)
               /\ \A w \in WayIndices(cache) :
                      cache.sets[s][w].valid => cache'.sets[s][w].valid
        /\ (Issued /\ ~IssuedHit) =>
               LET s == get_block_index(cache, IssuedAddr) IN
               \A v \in ChangedWays(s) :
                   IF InvalidWays(cache, s) # {}
                   THEN ~cache.sets[s][v].valid
                   ELSE cache.sets[s][v].valid
      ]_vars

\* 16 / 4 / 4W after reads of 0, 4, 8 and 0: three ways filled in order,
\* the fourth still empty, nothing evicted
C30_Witness ==
    /\ IsGeometry(cache, 16, 4, Four_Way)
    /\ operations = << <<"read", 0>>, <<"read", 4>>, <<"read", 8>>,
                       <<"read", 0>> >>
    /\ hits = <<FALSE, FALSE, FALSE, TRUE>>
    /\ InvalidWays(cache, 0) = {3}
    /\ cache.sets[0][0].tag = 0
    /\ cache.sets[0][1].tag = 1
    /\ cache.sets[0][2].tag = 2

-----------------------------------------------------------------------------
(* C31  In every reachable state the valid Blocks of the whole Cache have  *)
(* pairwise distinct last_used values, each in 1 .. access_count, and      *)
(* every invalid Block has last_used = 0; so two valid ways of a set never *)
(* tie for the smallest last_used when a victim is chosen.                 *)

\* the (set, way) positions of c
Slots(c) == SetIndices(c) \X WayIndices(c)

C31_UniqueStamps ==
    \A s \in SetIndices(cache), w \in WayIndices(cache) :
        \A block \in {cache.sets[s][w]} :
            IF block.valid
            THEN /\ block.last_used \in 1 .. cache.access_count
                 /\ \A t \in SetIndices(cache), u \in WayIndices(cache) :
                        (cache.sets[t][u].last_used = block.last_used) =>
                            (t = s /\ u = w)
            ELSE block.last_used = 0

\* 16 / 8 / 2W after read 0, write 8, read 0, read 16: the hit restamped
\* tag 0 with 3, tag 2 replaced tag 1 with stamp 4
C31_Witness ==
    /\ IsGeometry(cache, 16, 8, Two_Way)
    /\ operations = << <<"read", 0>>, <<"write", 8>>, <<"read", 0>>,
                       <<"read", 16>> >>
    /\ hits = <<FALSE, FALSE, TRUE, FALSE>>
    /\ cache.access_count = 4
    /\ cache.sets[0][0].valid /\ cache.sets[0][0].last_used = 3
    /\ cache.sets[0][1].valid /\ cache.sets[0][1].last_used = 4
    /\ cache.sets[0][1].tag = 2

-----------------------------------------------------------------------------
(* C32  For a write-back Cache, after every step bytes_to_memory is a      *)
(* multiple of block_size, the number of blocks written back plus the      *)
(* number of Blocks now dirty is at most the number of write calls issued, *)
(* and every dirty Block is valid; bytes_to_memory grows only by one       *)
(* block_size, in a miss that replaces a valid dirty Block, whose line is  *)
(* no longer in the Cache afterwards.                                      *)

DirtyCount(c) ==
    Cardinality({p \in Slots(c) : c.sets[p[1]][p[2]].dirty})

WriteCalls(ops) == Cardinality({k \in DOMAIN ops : ops[k][1] = "write"})

\* the step replaced a valid dirty Block of the requested set by another line
DirtyLineEvicted ==
    /\ Issued
    /\ ~IssuedHit
    /\ LET s == get_block_index(cache, IssuedAddr) IN
       \E v \in WayIndices(cache) :
           /\ cache.sets[s][v].valid
           /\ cache.sets[s][v].dirty
           /\ ChangedWays(s) = {v}
           /\ Holding(cache', s, cache.sets[s][v].tag) = {}

C32_WriteBackBound ==
    [][ cache.write_policy = WB =>
            /\ cache'.bytes_to_memory % cache'.block_size = 0
            /\ (cache'.bytes_to_memory \div cache'.block_size)
                   + DirtyCount(cache') <= WriteCalls(operations')
            /\ \A p \in Slots(cache') :
                   cache'.sets[p[1]][p[2]].dirty =>
                       cache'.sets[p[1]][p[2]].valid
            /\ cache'.bytes_to_memory # cache.bytes_to_memory =>
                   /\ cache'.bytes_to_memory =
                          cache.bytes_to_memory + cache.block_size
                   /\ DirtyLineEvicted
      ]_vars

\* 8 / 4 / DM under WB after write 0, write 8, read 16, write 0: two
\* write-backs of set 0 and one dirty Block, with three writes issued
C32_Witness ==
    /\ IsGeometry(cache, 8, 4, Direct_Mapped)
    /\ cache.write_policy = WB
    /\ operations = << <<"write", 0>>, <<"write", 8>>, <<"read", 16>>,
                       <<"write", 0>> >>
    /\ cache.bytes_to_memory = 8
    /\ DirtyCount(cache) = 1
    /\ WriteCalls(operations) = 3

-----------------------------------------------------------------------------
(* C33  After any sequence of read calls alone on a freshly constructed    *)
(* Cache, bytes_to_memory is 0 and no Block is dirty, under both write     *)
(* policies and every geometry.                                            *)

\* every request so far was a read
OnlyReads == \A k \in 1 .. Len(operations) : OpType(k) = "read"

C33_ReadsWriteNothing ==
    OnlyReads =>
        /\ cache.bytes_to_memory = 0
        /\ \A p \in Slots(cache) : ~cache.sets[p[1]][p[2]].dirty

\* four reads of one set of 8 / 4 / DM under WB, three of them evicting a
\* valid Block
C33_Witness ==
    /\ IsGeometry(cache, 8, 4, Direct_Mapped)
    /\ cache.write_policy = WB
    /\ operations = << <<"read", 0>>, <<"read", 8>>, <<"read", 16>>,
                       <<"read", 0>> >>
    /\ hits = <<FALSE, FALSE, FALSE, FALSE>>
    /\ cache.bytes_to_cache = 16
    /\ cache.bytes_to_memory = 0

=============================================================================
